---- MODULE Spec2Model ----
(***************************************************************************)
(* The structuring / velocity detection engine of app/structuring_engine.py *)
(* over the Redis counter store it uses, for one user.                      *)
(*                                                                          *)
(* Money is kept in integer cents.  A request's amount is given in mills    *)
(* (1/1000 of a currency unit) so that int(round(amount * 100)) is a real   *)
(* conversion.  Time is kept in clock ticks, TicksPerSecond to the second,  *)
(* so that int(datetime.now().timestamp()) is a real truncation.            *)
(***************************************************************************)
EXTENDS Integers, Sequences, FiniteSets, TLC

VARIABLES
    store,      \* Redis: key -> integer value, defined on the keys that exist
    expiry,     \* Redis: key -> tick at which the key expires, on keys with a TTL
    now,        \* the wall clock, in ticks
    last,       \* the most recent call: its input, outcome and the store before it
    wagerSum,   \* the cents of the wagers recorded since wagered_24h last expired
    dep,        \* the most recent deposit check, and the withdrawals denied since
    wdLog,      \* the withdrawal checks of the last hour: tick -> how many allowed, blocked
    used,       \* how often the capped operations were used
    procs,      \* the calls in progress at the same time: id -> its position and locals
    run,        \* the concurrent phase: the store when it began, who ran, how often
    db,         \* the transactions table: external_txn_id -> the row committed for it
    tally       \* what the checks have allowed and denied since the counters last expired

vars == <<store, expiry, now, last, wagerSum, dep, wdLog, used, procs, run, db, tally>>

----------------------------------------------------------------------------
(* Configuration of structuring_engine.py                                  *)

DAILY_DEPOSIT_LIMIT_CENTS == 10000 * 100
DAILY_WITHDRAWAL_LIMIT_CENTS == 50000 * 100
DEPOSIT_VELOCITY_LIMIT_24H == 15
WITHDRAWAL_VELOCITY_LIMIT_1H == 5
WITHDRAWAL_VELOCITY_LIMIT_24H == 12
\* MIN_WAGERING_RATIO = 0.05, kept as the exact fraction 1 / MinWageringRatioInv
MinWageringRatioInv == 20
QUICK_WITHDRAWAL_WINDOW_SECONDS == 3600
\* the smurfing rule's volume threshold, 5000 * 100
SMURFING_VOLUME_CENTS == 5000 * 100
TTL_24H == 86400
TTL_1H == 3600

\* clock resolution of the model: ticks per second
TicksPerSecond == 2

\* the store keys of the user, f"user:{user_id}:{metric}"
DepVol == "dep_vol_24h"
DepCnt == "dep_cnt_24h"
WdVol == "wd_vol_24h"
WdCnt1h == "wd_cnt_1h"
WdCnt24h == "wd_cnt_24h"
Wagered == "wagered_24h"
LastDep == "last_deposit_time"
Keys == {DepVol, DepCnt, WdVol, WdCnt1h, WdCnt24h, Wagered, LastDep}
\* the six counters, and the window of each in seconds
Counters == {DepVol, DepCnt, WdVol, WdCnt1h, WdCnt24h, Wagered}
Window(k) == IF k = WdCnt1h THEN TTL_1H ELSE TTL_24H

----------------------------------------------------------------------------
(* The Redis commands the engine issues.  A command sequence runs in a      *)
(* context c: the store, the expiries, the number of commands issued, the   *)
(* index of the command that raises redis.RedisError (0: none) and whether  *)
(* it has raised.  After a raise no further command runs.                   *)

Put(f, k, v) == [x \in (DOMAIN f) \cup {k} |-> IF x = k THEN v ELSE f[x]]
Drop(f, k) == [x \in (DOMAIN f) \ {k} |-> f[x]]

\* the integer a key counts as: INCRBY treats a missing key as 0
Val(st, k) == IF k \in DOMAIN st THEN st[k] ELSE 0

NewCtx(st, ex, failAt) ==
    [st |-> st, ex |-> ex, n |-> 0, failAt |-> failAt, failed |-> FALSE]

\* a command that takes effect on the server before it raises
Command_AppliesThenRaises(c, st2, ex2) ==
    IF c.failed THEN c
    ELSE IF c.n + 1 = c.failAt
    THEN [c EXCEPT !.st = st2, !.ex = ex2, !.failed = TRUE, !.n = c.n + 1]
    ELSE [c EXCEPT !.st = st2, !.ex = ex2, !.n = c.n + 1]

Command(c, st2, ex2) ==
    IF c.failed THEN c
    ELSE IF c.n + 1 = c.failAt THEN [c EXCEPT !.failed = TRUE, !.n = c.n + 1]
    ELSE [c EXCEPT !.st = st2, !.ex = ex2, !.n = c.n + 1]

\* INCRBY key delta (INCR, DECR are INCRBY 1, -1): creates a missing key from 0
\* and never touches the TTL
INCRBY(c, k, d) == Command(c, Put(c.st, k, Val(c.st, k) + d), c.ex)

\* EXPIRE key seconds: sets the TTL of an existing key
EXPIRE(c, k, secs, t) ==
    Command(c, c.st,
            IF k \in DOMAIN c.st THEN Put(c.ex, k, t + secs * TicksPerSecond)
            ELSE c.ex)

\* SET key value: stores the value and discards any TTL
SET(c, k, v) == Command(c, Put(c.st, k, v), Drop(c.ex, k))

\* GET key: a command that changes nothing; the value is read from c.st
GET(c, k) == Command(c, c.st, c.ex)

\* DEL key
DELETE(c, k) == Command(c, Drop(c.st, k), Drop(c.ex, k))

\* the keys of st that are still alive at tick t
Alive(st, ex, t) == {k \in DOMAIN st : k \notin DOMAIN ex \/ ex[k] > t}

----------------------------------------------------------------------------
(* Conversions                                                             *)

\* int(round(amount * 100)) for amount = mills / 1000: Python 3 rounds a
\* half to the even neighbour
ToCentsEven(mills) ==
    LET q == mills \div 10
        r == mills % 10
    IN  IF r < 5 THEN q
        ELSE IF r > 5 THEN q + 1
        ELSE IF q % 2 = 0 THEN q ELSE q + 1

ToCents(mills) == ToCentsEven(mills)

\* int(datetime.now(timezone.utc).timestamp())
Timestamp(t) == t \div TicksPerSecond

----------------------------------------------------------------------------
(* Outcomes                                                                *)

Outcome(allowed, score, reason, total) ==
    [allowed |-> allowed, risk_score |-> score, reason |-> reason, total |-> total]

\* the reasons of the five rules that deny a withdrawal
RuleDenials == {"Daily withdrawal limit exceeded", "Velocity exceeded",
                "Suspicious activity", "Quick withdrawal detected",
                "Insufficient betting activity"}

SystemError == Outcome(FALSE, 100, "System error: Unable to verify transaction history", 0)

\* the outcome field of a call that has not returned
NoOutcome == Outcome(FALSE, 0, "", 0)

----------------------------------------------------------------------------
(* _rollback_deposit and _check_deposit                                    *)

\* a rollback that restores the volume and forgets the count
rollback_deposit_VolumeOnly(c, amount_cents) ==
    INCRBY(c, DepVol, -amount_cents)

rollback_deposit(c, amount_cents) ==
    INCRBY(INCRBY(c, DepVol, -amount_cents), DepCnt, -1)

DepositHardLimit(new_vol_cents) == new_vol_cents > DAILY_DEPOSIT_LIMIT_CENTS

\* the count test off by one: the 16th deposit passes
DepositSmurfing_From17th(new_count, new_vol_cents) ==
    new_count > DEPOSIT_VELOCITY_LIMIT_24H + 1 /\ new_vol_cents > SMURFING_VOLUME_CENTS

\* the volume test alone: the count is not looked at
DepositSmurfing_AnyCount(new_count, new_vol_cents) ==
    new_vol_cents > SMURFING_VOLUME_CENTS

DepositSmurfing(new_count, new_vol_cents) ==
    new_count > DEPOSIT_VELOCITY_LIMIT_24H /\ new_vol_cents > SMURFING_VOLUME_CENTS

\* the warning band opened with > in place of >=
DepositNearLimit_Strict(new_vol_cents) ==
    10 * new_vol_cents > 9 * DAILY_DEPOSIT_LIMIT_CENTS

\* new_vol_cents >= DAILY_DEPOSIT_LIMIT_CENTS * 0.90, i.e. >= 900000.0
DepositNearLimit(new_vol_cents) ==
    10 * new_vol_cents >= 9 * DAILY_DEPOSIT_LIMIT_CENTS

\* the deposit check that stamps last_deposit_time on the warning path too
check_deposit_StampsWarning(c0, amount_cents, t) ==
    LET c1 == INCRBY(c0, DepVol, amount_cents)
        c2 == EXPIRE(c1, DepVol, TTL_24H, t)
        c3 == INCRBY(c2, DepCnt, 1)
        c4 == EXPIRE(c3, DepCnt, TTL_24H, t)
        new_vol_cents == Val(c1.st, DepVol)
        new_count == Val(c3.st, DepCnt)
        stamped == EXPIRE(SET(c4, LastDep, Timestamp(t)), LastDep, TTL_24H, t)
    IN  IF DepositHardLimit(new_vol_cents)
        THEN [c |-> rollback_deposit(c4, amount_cents),
              res |-> Outcome(FALSE, 100, "Daily deposit limit exceeded",
                              new_vol_cents - amount_cents)]
        ELSE IF DepositSmurfing(new_count, new_vol_cents)
        THEN [c |-> c4,
              res |-> Outcome(FALSE, 95, "Structuring detected", new_vol_cents)]
        ELSE IF DepositNearLimit(new_vol_cents)
        THEN [c |-> stamped,
              res |-> Outcome(TRUE, 80, "Warning: approaching limit", new_vol_cents)]
        ELSE [c |-> stamped, res |-> Outcome(TRUE, 0, "Safe", new_vol_cents)]

\* the deposit check that takes its increments back on a structuring denial
check_deposit_SmurfingRollsBack(c0, amount_cents, t) ==
    LET c1 == INCRBY(c0, DepVol, amount_cents)
        c2 == EXPIRE(c1, DepVol, TTL_24H, t)
        c3 == INCRBY(c2, DepCnt, 1)
        c4 == EXPIRE(c3, DepCnt, TTL_24H, t)
        new_vol_cents == Val(c1.st, DepVol)
        new_count == Val(c3.st, DepCnt)
    IN  IF DepositHardLimit(new_vol_cents)
        THEN [c |-> rollback_deposit(c4, amount_cents),
              res |-> Outcome(FALSE, 100, "Daily deposit limit exceeded",
                              new_vol_cents - amount_cents)]
        ELSE IF DepositSmurfing(new_count, new_vol_cents)
        THEN [c |-> rollback_deposit(c4, amount_cents),
              res |-> Outcome(FALSE, 95, "Structuring detected", new_vol_cents)]
        ELSE IF DepositNearLimit(new_vol_cents)
        THEN [c |-> c4,
              res |-> Outcome(TRUE, 80, "Warning: approaching limit", new_vol_cents)]
        ELSE [c |-> EXPIRE(SET(c4, LastDep, Timestamp(t)), LastDep, TTL_24H, t),
              res |-> Outcome(TRUE, 0, "Safe", new_vol_cents)]

check_deposit(c0, amount_cents, t) ==
    LET c1 == INCRBY(c0, DepVol, amount_cents)
        c2 == EXPIRE(c1, DepVol, TTL_24H, t)
        c3 == INCRBY(c2, DepCnt, 1)
        c4 == EXPIRE(c3, DepCnt, TTL_24H, t)
        new_vol_cents == Val(c1.st, DepVol)
        new_count == Val(c3.st, DepCnt)
    IN  IF DepositHardLimit(new_vol_cents)
        THEN [c |-> rollback_deposit(c4, amount_cents),
              res |-> Outcome(FALSE, 100, "Daily deposit limit exceeded",
                              new_vol_cents - amount_cents)]
        ELSE IF DepositSmurfing(new_count, new_vol_cents)
        THEN [c |-> c4,
              res |-> Outcome(FALSE, 95, "Structuring detected", new_vol_cents)]
        ELSE IF DepositNearLimit(new_vol_cents)
        THEN [c |-> c4,
              res |-> Outcome(TRUE, 80, "Warning: approaching limit", new_vol_cents)]
        ELSE [c |-> EXPIRE(SET(c4, LastDep, Timestamp(t)), LastDep, TTL_24H, t),
              res |-> Outcome(TRUE, 0, "Safe", new_vol_cents)]

----------------------------------------------------------------------------
(* _rollback_withdrawal and _check_withdrawal                              *)

\* a rollback that leaves the hourly count incremented
rollback_withdrawal_KeepsHourly(c, amount_cents) ==
    LET r1 == INCRBY(c, WdVol, -amount_cents)
        r3 == INCRBY(r1, WdCnt24h, -1)
        r4 == INCRBY(r3, Wagered, -1)
    IN  DELETE(r4, LastDep)

\* a rollback that takes the counters back and leaves last_deposit_time
rollback_withdrawal_NoDelete(c, amount_cents) ==
    LET r1 == INCRBY(c, WdVol, -amount_cents)
        r2 == INCRBY(r1, WdCnt1h, -1)
        r3 == INCRBY(r2, WdCnt24h, -1)
    IN  INCRBY(r3, Wagered, -1)

rollback_withdrawal(c, amount_cents) ==
    LET r1 == INCRBY(c, WdVol, -amount_cents)
        r2 == INCRBY(r1, WdCnt1h, -1)
        r3 == INCRBY(r2, WdCnt24h, -1)
        r4 == INCRBY(r3, Wagered, -1)
    IN  DELETE(r4, LastDep)

WithdrawalHardLimit(new_vol_cents) == new_vol_cents > DAILY_WITHDRAWAL_LIMIT_CENTS

\* the hourly limit off by one: the 6th withdrawal passes
HourlyVelocity_From7th(new_count_1h) == new_count_1h > WITHDRAWAL_VELOCITY_LIMIT_1H + 1

HourlyVelocity(new_count_1h) == new_count_1h > WITHDRAWAL_VELOCITY_LIMIT_1H

DailyVelocity(new_count_24h) == new_count_24h > WITHDRAWAL_VELOCITY_LIMIT_24H

\* last_deposit_time is a string: any stored value, "0" included, is truthy
QuickWithdrawal(st, t) ==
    /\ LastDep \in DOMAIN st
    /\ Timestamp(t) - st[LastDep] < QUICK_WITHDRAWAL_WINDOW_SECONDS

\* total_wagered_cents / total_deposited_cents < 0.05 for a positive divisor:
\* the quotient of two integers below 2^53 is never within rounding distance
\* of 0.05 without being equal to 1/20, so the comparison is the exact one
LowWageringRatio(total_wagered_cents, total_deposited_cents) ==
    MinWageringRatioInv * total_wagered_cents < total_deposited_cents

LowActivity(st) ==
    /\ DepVol \in DOMAIN st
    /\ st[DepVol] > 0
    /\ LowWageringRatio(Val(st, Wagered), st[DepVol])

\* 80% of 12 taken as the integer 9
HighFrequency_From9th(new_count_24h) ==
    new_count_24h >= (8 * WITHDRAWAL_VELOCITY_LIMIT_24H) \div 10

\* new_count_24h >= WITHDRAWAL_VELOCITY_LIMIT_24H * 0.8, i.e. >= 9.600000000000001
HighFrequency(new_count_24h) ==
    10 * new_count_24h >= 8 * WITHDRAWAL_VELOCITY_LIMIT_24H

\* the rules decided from the new counter values alone, in the order of the
\* code: 1 hard daily limit, 2 hourly velocity, 3 daily velocity, 0 none
EarlyRule_VelocityFirst(new_vol_cents, new_count_1h, new_count_24h) ==
    IF HourlyVelocity(new_count_1h) THEN 2
    ELSE IF WithdrawalHardLimit(new_vol_cents) THEN 1
    ELSE IF DailyVelocity(new_count_24h) THEN 3
    ELSE 0

EarlyRule(new_vol_cents, new_count_1h, new_count_24h) ==
    IF WithdrawalHardLimit(new_vol_cents) THEN 1
    ELSE IF HourlyVelocity(new_count_1h) THEN 2
    ELSE IF DailyVelocity(new_count_24h) THEN 3
    ELSE 0

check_withdrawal(c0, amount_cents, t) ==
    LET c1 == INCRBY(c0, WdVol, amount_cents)
        c2 == EXPIRE(c1, WdVol, TTL_24H, t)
        c3 == INCRBY(c2, WdCnt1h, 1)
        c4 == EXPIRE(c3, WdCnt1h, TTL_1H, t)
        c5 == INCRBY(c4, WdCnt24h, 1)
        c6 == EXPIRE(c5, WdCnt24h, TTL_24H, t)
        new_vol_cents == Val(c1.st, WdVol)
        new_count_1h == Val(c3.st, WdCnt1h)
        new_count_24h == Val(c5.st, WdCnt24h)
        early == EarlyRule(new_vol_cents, new_count_1h, new_count_24h)
        c7 == GET(c6, LastDep)
        c9 == GET(GET(c7, DepVol), Wagered)
        Blocked(c, score, reason) ==
            [c |-> rollback_withdrawal(c, amount_cents),
             res |-> Outcome(FALSE, score, reason, new_vol_cents - amount_cents)]
    IN  IF early = 1
        THEN Blocked(c6, 100, "Daily withdrawal limit exceeded")
        ELSE IF early = 2
        THEN Blocked(c6, 95, "Velocity exceeded")
        ELSE IF early = 3
        THEN Blocked(c6, 90, "Suspicious activity")
        ELSE IF QuickWithdrawal(c7.st, t)
        THEN Blocked(c7, 90, "Quick withdrawal detected")
        ELSE IF LowActivity(c9.st)
        THEN Blocked(c9, 85, "Insufficient betting activity")
        ELSE IF HighFrequency(new_count_24h)
        THEN [c |-> c9,
              res |-> Outcome(TRUE, 70, "Warning: High withdrawal frequency",
                              new_vol_cents)]
        ELSE [c |-> c9, res |-> Outcome(TRUE, 0, "Safe", new_vol_cents)]

----------------------------------------------------------------------------
(* check_structuring: validation, dispatch and the two except clauses      *)

\* what a call leaves behind: the store, the outcome, whether a command raised
\* and whether the call itself raised to its caller
Done(c, res, raised) ==
    [st |-> c.st, ex |-> c.ex, res |-> res, failed |-> c.failed,
     n |-> c.n, raised |-> raised]

\* no except clause: the outcome of the path taken stands, and the error escapes
Guarded_NoExcept(out) == Done(out.c, out.res, out.c.failed)

\* except redis.RedisError / except Exception: both return the same denial
Guarded(out) ==
    Done(out.c, IF out.c.failed THEN SystemError ELSE out.res, FALSE)

\* the dispatch without the amount test
check_structuring_NoAmountTest(st, ex, t, mills, txn_type, failAt) ==
    LET c0 == NewCtx(st, ex, failAt)
    IN  IF txn_type = "WITHDRAWAL"
        THEN Guarded(check_withdrawal(c0, ToCents(mills), t))
        ELSE IF txn_type = "DEPOSIT"
        THEN Guarded(check_deposit(c0, ToCents(mills), t))
        ELSE Done(c0, Outcome(FALSE, 100, "Invalid transaction type", 0), FALSE)

check_structuring(st, ex, t, mills, txn_type, failAt) ==
    LET c0 == NewCtx(st, ex, failAt)
    IN  IF mills <= 0
        THEN Done(c0, Outcome(FALSE, 100, "Invalid Amount", 0), FALSE)
        ELSE IF txn_type = "WITHDRAWAL"
        THEN Guarded(check_withdrawal(c0, ToCents(mills), t))
        ELSE IF txn_type = "DEPOSIT"
        THEN Guarded(check_deposit(c0, ToCents(mills), t))
        ELSE Done(c0, Outcome(FALSE, 100, "Invalid transaction type", 0), FALSE)

----------------------------------------------------------------------------
(* record_wager                                                            *)

WagerOutcome(success, reason, total) ==
    [allowed |-> success, risk_score |-> 0, reason |-> reason, total |-> total]

\* the recorder without the amount test
record_wager_NoAmountTest(st, ex, t, mills, failAt) ==
    LET c0 == NewCtx(st, ex, failAt)
        c1 == INCRBY(c0, Wagered, ToCents(mills))
        c2 == EXPIRE(c1, Wagered, TTL_24H, t)
    IN  IF c2.failed
        THEN Done(c2, WagerOutcome(FALSE, "System error", 0), FALSE)
        ELSE Done(c2, WagerOutcome(TRUE, "recorded", Val(c1.st, Wagered)), FALSE)

record_wager(st, ex, t, mills, failAt) ==
    LET c0 == NewCtx(st, ex, failAt)
        c1 == INCRBY(c0, Wagered, ToCents(mills))
        c2 == EXPIRE(c1, Wagered, TTL_24H, t)
    IN  IF mills <= 0
        THEN Done(c0, WagerOutcome(FALSE, "Invalid wager amount", 0), FALSE)
        ELSE IF c2.failed
        THEN Done(c2, WagerOutcome(FALSE, "System error", 0), FALSE)
        ELSE Done(c2, WagerOutcome(TRUE, "recorded", Val(c1.st, Wagered)), FALSE)

----------------------------------------------------------------------------
(* POST /api/v1/record-wager: WagerRequest validation, then record_wager   *)

\* the sanity ceiling of WagerRequest, in mills: $100,000
WAGER_CEILING_MILLS == 100000 * 1000

\* WagerRequest.wager_must_be_positive: the request is refused (HTTP 422)
\* unless 0 < v <= 100000
WagerRequestValid(mills) == mills > 0 /\ mills <= WAGER_CEILING_MILLS

\* round(v, 2), for amounts away from a half cent: the nearest cent, in mills
Round2(mills) == ToCents(mills) * 10

\* record_user_wager: a refused request never reaches record_wager; a wager
\* that record_wager refuses is answered with HTTP 400
record_user_wager(st, ex, t, mills, failAt) ==
    IF ~WagerRequestValid(mills)
    THEN Done(NewCtx(st, ex, failAt), WagerOutcome(FALSE, "HTTP 422", 0), FALSE)
    ELSE LET out == record_wager(st, ex, t, Round2(mills), failAt)
         IN  IF out.res.allowed THEN out
             ELSE [out EXCEPT !.res = WagerOutcome(FALSE, "HTTP 400", 0)]

----------------------------------------------------------------------------
(* The same handlers one store command at a time, for calls that run at    *)
(* the same moment.  A call in progress keeps what its commands returned:   *)
(* vol, c1h and cnt from its INCRBYs, dv from its GET of dep_vol_24h.  pc   *)
(* is the command it issues next: 1 before its first command, 0 once it     *)
(* has returned.                                                            *)

NewProc(txn_type, mills, id) ==
    [txn_type |-> txn_type, mills |-> mills, id |-> id, pc |-> 1,
     vol |-> 0, c1h |-> 0, cnt |-> 0, dv |-> 0, res |-> NoOutcome, path |-> ""]

Returned(p, res) == [p EXCEPT !.pc = 0, !.res = res]

\* a read-modify-write from the value the key had when the calls arrived
IncrResult_FromArrival(st, st0, k, d) == Val(st0, k) + d

\* the value an INCRBY writes and returns: st is the store now, st0 the
\* store when the calls arrived
IncrResult(st, st0, k, d) == Val(st, k) + d

\* one INCRBY issued on the store as it is now
IncrNow(c, st0, k, d) == Command(c, Put(c.st, k, IncrResult(c.st, st0, k, d)), c.ex)

\* _check_deposit: 1-4 increments and expiries, 5-6 _rollback_deposit,
\* 7-8 SET and EXPIRE of last_deposit_time
DepositBranch(p, amount_cents) ==
    IF DepositHardLimit(p.vol)
    THEN [p EXCEPT !.pc = 5,
                   !.res = Outcome(FALSE, 100, "Daily deposit limit exceeded",
                                   p.vol - amount_cents)]
    ELSE IF DepositSmurfing(p.cnt, p.vol)
    THEN Returned(p, Outcome(FALSE, 95, "Structuring detected", p.vol))
    ELSE IF DepositNearLimit(p.vol)
    THEN Returned(p, Outcome(TRUE, 80, "Warning: approaching limit", p.vol))
    ELSE [p EXCEPT !.pc = 7, !.res = Outcome(TRUE, 0, "Safe", p.vol)]

\* the deposit that decides on the volume as it was when the call arrived
\* plus its own amount, not on what its own INCRBY returned
StepDeposit_DecidesOnArrivalVolume(p, c, st0, t) ==
    LET a == ToCents(p.mills)
    IN  CASE p.pc = 1 ->
                [p |-> [p EXCEPT !.pc = 2, !.vol = Val(st0, DepVol) + a],
                 c |-> IncrNow(c, st0, DepVol, a)]
          [] p.pc = 2 ->
                [p |-> [p EXCEPT !.pc = 3], c |-> EXPIRE(c, DepVol, TTL_24H, t)]
          [] p.pc = 3 ->
                LET c3 == IncrNow(c, st0, DepCnt, 1)
                IN  [p |-> [p EXCEPT !.pc = 4, !.cnt = Val(c3.st, DepCnt)], c |-> c3]
          [] p.pc = 4 ->
                [p |-> DepositBranch(p, a), c |-> EXPIRE(c, DepCnt, TTL_24H, t)]
          [] p.pc = 5 ->
                [p |-> [p EXCEPT !.pc = 6], c |-> IncrNow(c, st0, DepVol, -a)]
          [] p.pc = 6 ->
                [p |-> [p EXCEPT !.pc = 0], c |-> IncrNow(c, st0, DepCnt, -1)]
          [] p.pc = 7 ->
                [p |-> [p EXCEPT !.pc = 8], c |-> SET(c, LastDep, Timestamp(t))]
          [] OTHER ->
                [p |-> [p EXCEPT !.pc = 0], c |-> EXPIRE(c, LastDep, TTL_24H, t)]

StepDeposit(p, c, st0, t) ==
    LET a == ToCents(p.mills)
    IN  CASE p.pc = 1 ->
                LET c1 == IncrNow(c, st0, DepVol, a)
                IN  [p |-> [p EXCEPT !.pc = 2, !.vol = Val(c1.st, DepVol)], c |-> c1]
          [] p.pc = 2 ->
                [p |-> [p EXCEPT !.pc = 3], c |-> EXPIRE(c, DepVol, TTL_24H, t)]
          [] p.pc = 3 ->
                LET c3 == IncrNow(c, st0, DepCnt, 1)
                IN  [p |-> [p EXCEPT !.pc = 4, !.cnt = Val(c3.st, DepCnt)], c |-> c3]
          [] p.pc = 4 ->
                [p |-> DepositBranch(p, a), c |-> EXPIRE(c, DepCnt, TTL_24H, t)]
          [] p.pc = 5 ->
                [p |-> [p EXCEPT !.pc = 6], c |-> IncrNow(c, st0, DepVol, -a)]
          [] p.pc = 6 ->
                [p |-> [p EXCEPT !.pc = 0], c |-> IncrNow(c, st0, DepCnt, -1)]
          [] p.pc = 7 ->
                [p |-> [p EXCEPT !.pc = 8], c |-> SET(c, LastDep, Timestamp(t))]
          [] OTHER ->
                [p |-> [p EXCEPT !.pc = 0], c |-> EXPIRE(c, LastDep, TTL_24H, t)]

\* _check_withdrawal: 1-6 increments and expiries, 7-9 the GETs of
\* last_deposit_time, dep_vol_24h and wagered_24h, 10-14 _rollback_withdrawal
RollingBack(p, score, reason, amount_cents) ==
    [p EXCEPT !.pc = 10,
              !.res = Outcome(FALSE, score, reason, p.vol - amount_cents)]

WithdrawalBranch(p, amount_cents) ==
    LET early == EarlyRule(p.vol, p.c1h, p.cnt)
    IN  IF early = 1
        THEN RollingBack(p, 100, "Daily withdrawal limit exceeded", amount_cents)
        ELSE IF early = 2
        THEN RollingBack(p, 95, "Velocity exceeded", amount_cents)
        ELSE IF early = 3
        THEN RollingBack(p, 90, "Suspicious activity", amount_cents)
        ELSE [p EXCEPT !.pc = 7]

\* the rollback that leaves last_deposit_time in place
RollbackStep_NoDelete(p, c, st0, amount_cents) ==
    CASE p.pc = 10 -> [p |-> [p EXCEPT !.pc = 11], c |-> IncrNow(c, st0, WdVol, -amount_cents)]
      [] p.pc = 11 -> [p |-> [p EXCEPT !.pc = 12], c |-> IncrNow(c, st0, WdCnt1h, -1)]
      [] p.pc = 12 -> [p |-> [p EXCEPT !.pc = 13], c |-> IncrNow(c, st0, WdCnt24h, -1)]
      [] p.pc = 13 -> [p |-> [p EXCEPT !.pc = 14], c |-> IncrNow(c, st0, Wagered, -1)]
      [] OTHER -> [p |-> [p EXCEPT !.pc = 0], c |-> GET(c, LastDep)]

RollbackStep(p, c, st0, amount_cents) ==
    CASE p.pc = 10 -> [p |-> [p EXCEPT !.pc = 11], c |-> IncrNow(c, st0, WdVol, -amount_cents)]
      [] p.pc = 11 -> [p |-> [p EXCEPT !.pc = 12], c |-> IncrNow(c, st0, WdCnt1h, -1)]
      [] p.pc = 12 -> [p |-> [p EXCEPT !.pc = 13], c |-> IncrNow(c, st0, WdCnt24h, -1)]
      [] p.pc = 13 -> [p |-> [p EXCEPT !.pc = 14], c |-> IncrNow(c, st0, Wagered, -1)]
      [] OTHER -> [p |-> [p EXCEPT !.pc = 0], c |-> DELETE(c, LastDep)]

\* the withdrawal that decides on the counters as they were when the call
\* arrived plus its own, not on what its own increments returned
StepWithdrawal_DecidesOnArrivalCounts(p, c, st0, t) ==
    LET a == ToCents(p.mills)
    IN  CASE p.pc = 1 ->
                [p |-> [p EXCEPT !.pc = 2, !.vol = Val(st0, WdVol) + a],
                 c |-> IncrNow(c, st0, WdVol, a)]
          [] p.pc = 2 ->
                [p |-> [p EXCEPT !.pc = 3], c |-> EXPIRE(c, WdVol, TTL_24H, t)]
          [] p.pc = 3 ->
                [p |-> [p EXCEPT !.pc = 4, !.c1h = Val(st0, WdCnt1h) + 1],
                 c |-> IncrNow(c, st0, WdCnt1h, 1)]
          [] p.pc = 4 ->
                [p |-> [p EXCEPT !.pc = 5], c |-> EXPIRE(c, WdCnt1h, TTL_1H, t)]
          [] p.pc = 5 ->
                [p |-> [p EXCEPT !.pc = 6, !.cnt = Val(st0, WdCnt24h) + 1],
                 c |-> IncrNow(c, st0, WdCnt24h, 1)]
          [] p.pc = 6 ->
                [p |-> WithdrawalBranch(p, a), c |-> EXPIRE(c, WdCnt24h, TTL_24H, t)]
          [] p.pc = 7 ->
                [p |-> IF QuickWithdrawal(c.st, t)
                       THEN RollingBack(p, 90, "Quick withdrawal detected", a)
                       ELSE [p EXCEPT !.pc = 8],
                 c |-> GET(c, LastDep)]
          [] p.pc = 8 ->
                [p |-> [p EXCEPT !.pc = 9, !.dv = Val(c.st, DepVol)],
                 c |-> GET(c, DepVol)]
          [] p.pc = 9 ->
                [p |-> IF p.dv > 0 /\ LowWageringRatio(Val(c.st, Wagered), p.dv)
                       THEN RollingBack(p, 85, "Insufficient betting activity", a)
                       ELSE IF HighFrequency(p.cnt)
                       THEN Returned(p, Outcome(TRUE, 70,
                                        "Warning: High withdrawal frequency", p.vol))
                       ELSE Returned(p, Outcome(TRUE, 0, "Safe", p.vol)),
                 c |-> GET(c, Wagered)]
          [] OTHER -> RollbackStep(p, c, st0, a)

StepWithdrawal(p, c, st0, t) ==
    LET a == ToCents(p.mills)
    IN  CASE p.pc = 1 ->
                LET c1 == IncrNow(c, st0, WdVol, a)
                IN  [p |-> [p EXCEPT !.pc = 2, !.vol = Val(c1.st, WdVol)], c |-> c1]
          [] p.pc = 2 ->
                [p |-> [p EXCEPT !.pc = 3], c |-> EXPIRE(c, WdVol, TTL_24H, t)]
          [] p.pc = 3 ->
                LET c3 == IncrNow(c, st0, WdCnt1h, 1)
                IN  [p |-> [p EXCEPT !.pc = 4, !.c1h = Val(c3.st, WdCnt1h)], c |-> c3]
          [] p.pc = 4 ->
                [p |-> [p EXCEPT !.pc = 5], c |-> EXPIRE(c, WdCnt1h, TTL_1H, t)]
          [] p.pc = 5 ->
                LET c5 == IncrNow(c, st0, WdCnt24h, 1)
                IN  [p |-> [p EXCEPT !.pc = 6, !.cnt = Val(c5.st, WdCnt24h)], c |-> c5]
          [] p.pc = 6 ->
                [p |-> WithdrawalBranch(p, a), c |-> EXPIRE(c, WdCnt24h, TTL_24H, t)]
          [] p.pc = 7 ->
                [p |-> IF QuickWithdrawal(c.st, t)
                       THEN RollingBack(p, 90, "Quick withdrawal detected", a)
                       ELSE [p EXCEPT !.pc = 8],
                 c |-> GET(c, LastDep)]
          [] p.pc = 8 ->
                [p |-> [p EXCEPT !.pc = 9, !.dv = Val(c.st, DepVol)],
                 c |-> GET(c, DepVol)]
          [] p.pc = 9 ->
                [p |-> IF p.dv > 0 /\ LowWageringRatio(Val(c.st, Wagered), p.dv)
                       THEN RollingBack(p, 85, "Insufficient betting activity", a)
                       ELSE IF HighFrequency(p.cnt)
                       THEN Returned(p, Outcome(TRUE, 70,
                                        "Warning: High withdrawal frequency", p.vol))
                       ELSE Returned(p, Outcome(TRUE, 0, "Safe", p.vol)),
                 c |-> GET(c, Wagered)]
          [] OTHER -> RollbackStep(p, c, st0, a)

\* record_wager: 1 INCRBY, 2 EXPIRE
StepWager(p, c, st0, t) ==
    LET a == ToCents(p.mills)
    IN  IF p.pc = 1
        THEN LET c1 == IncrNow(c, st0, Wagered, a)
             IN  [p |-> [p EXCEPT !.pc = 2, !.vol = Val(c1.st, Wagered)], c |-> c1]
        ELSE [p |-> Returned(p, WagerOutcome(TRUE, "recorded", p.vol)),
              c |-> EXPIRE(c, Wagered, TTL_24H, t)]

\* check_structuring and record_wager refuse a non-positive amount before
\* their first command
StepEngine(p, c, st0, t) ==
    IF p.mills <= 0
    THEN [p |-> Returned(p, IF p.txn_type = "WAGER"
                            THEN WagerOutcome(FALSE, "Invalid wager amount", 0)
                            ELSE Outcome(FALSE, 100, "Invalid Amount", 0)),
          c |-> c]
    ELSE IF p.txn_type = "WITHDRAWAL" THEN StepWithdrawal(p, c, st0, t)
    ELSE IF p.txn_type = "DEPOSIT" THEN StepDeposit(p, c, st0, t)
    ELSE StepWager(p, c, st0, t)

\* the same call made in one piece
CallEngine(p, st, ex, t) ==
    IF p.txn_type = "WAGER" THEN record_wager(st, ex, t, p.mills, 0)
    ELSE check_structuring(st, ex, t, p.mills, p.txn_type, 0)

----------------------------------------------------------------------------
(* POST /api/v1/check-transaction, one database or engine call at a time:  *)
(* 1 the query for a row with the request's transaction_id, 2 the call of   *)
(* check_structuring, 3 db.add and db.commit.  external_txn_id is unique:   *)
(* the commit of a second row with the same id raises IntegrityError.       *)

\* the ceiling of TransactionRequest, in mills: $1,000,000
AMOUNT_CEILING_MILLS == 1000000 * 1000

\* TransactionRequest.amount_must_be_positive
TransactionRequestValid(mills) == mills > 0 /\ mills <= AMOUNT_CEILING_MILLS

\* the reply to a duplicate: decided from the stored row
StoredDecision(row) ==
    Outcome(~row.is_flagged, IF row.is_flagged THEN 100 ELSE 0, row.flag_reason, 0)

Row(res) == [is_flagged |-> ~res.allowed, flag_reason |-> res.reason]

HttpError(code) == Outcome(FALSE, 0, code, 0)

----------------------------------------------------------------------------
(* Bounds and inputs of the model                                          *)

\* deposit checks stop once dep_cnt_24h has reached this count
MaxDepositCount == 17
\* deposit checks of the whole engine stop at this count
MaxDeposits == 1
\* wagers recorded per run
MaxWagers == 2
\* withdrawals blocked by a rule (and rolled back) per run
MaxBlocked == 2
\* calls per run during which a store command raises
MaxFaults == 1
\* the highest index of a store command that may raise (a call issues at most 14)
MaxFailAt == 14

Hour == 3600 * TicksPerSecond
Day == 86400 * TicksPerSecond

\* the first call arrives one tick after a full second
StartTick == 1
\* the later instants at which calls arrive, in ticks
Instants == {Hour + 1, 2 * Hour + 1}
InstantsLayering == {Hour, Hour + 1}
InstantsDeposit == {Hour, Day, Day + 1}

\* amounts of requests, in mills: $1,000 is 1000000
DepositMillsRich == {4, 500000, 1000000, 11000000}
DepositMills == {1000000}
\* $1,000, alone or on top of $9,000
DepositMillsLayering == {1000000, 9000000}
DepositMillsFault == {1000000, 11000000}
WithdrawalMills == {1000000, 50000000}
WithdrawalMillsSmall == {1000000}
WithdrawalMillsFault == {50000000}
WagerMills == {10000, 40000}
WagerMillsCoarse == {50000}
InvalidRequests == {<<0, "DEPOSIT">>, <<-1000, "WITHDRAWAL">>, <<1000000, "REFUND">>}
InvalidWagerMills == {-1000, 0}
\* the calls made at the same moment: deposits that fit the daily limit
\* together or not, a withdrawal, a wager
DepositMillsConcurrent == {1000000, 5000000}
ConcurrentMills(txn_type) ==
    IF txn_type = "DEPOSIT" THEN {3000000, 6000000}
    ELSE IF txn_type = "WITHDRAWAL" THEN {1000000}
    ELSE {10000, 40000}
\* concurrent withdrawals that fit the daily limit of $50,000 together with
\* three earlier ones of $1,000, or not
WithdrawalMillsConcurrent == {1000000, 46000000}
\* requests to the endpoint per run, their transaction ids and payloads
MaxRequests == 3
TransactionIds == {"txn_1", "txn_2"}
ApiRequests == {<<"DEPOSIT", 1000000>>, <<"WITHDRAWAL", 1000000>>, <<"DEPOSIT", 0>>}
\* wagers at and around the ceiling of $100,000, and one below a cent
WagerMillsCeiling == {4, 50000, 100000000, 100000010}

----------------------------------------------------------------------------
(* The state machine: one action per call of the engine, and the clock     *)

Called(op, mills, txn_type, out) ==
    [op |-> op, mills |-> mills, txn_type |-> txn_type, at |-> now,
     res |-> out.res, pre |-> store, preEx |-> expiry, preTally |-> tally,
     failed |-> out.failed, n |-> out.n, raised |-> out.raised]

Count(flag) == IF flag THEN 1 ELSE 0

\* nothing allowed or denied yet
NoSmurfing == [on |-> FALSE, vol |-> 0, cnt |-> 0]
NoTally == [depSum |-> 0, wdSum |-> 0, wd1h |-> 0, wd24h |-> 0,
            smurf |-> NoSmurfing, denied |-> FALSE]

\* the tally after a check of cents has returned res; cnt is the deposit
\* count its INCR returned.  depSum, wdSum: the cents of the deposits and
\* withdrawals allowed; wd1h, wd24h: the withdrawals allowed; smurf: the
\* volume and count at the first denial for structuring; denied: a withdrawal
\* was denied by a rule since the last deposit approved with score 0
Tallied(tl, txn_type, cents, res, cnt) ==
    IF txn_type = "DEPOSIT"
    THEN [tl EXCEPT
            !.depSum = @ + (IF res.allowed THEN cents ELSE 0),
            !.smurf = IF res.reason = "Structuring detected" /\ ~@.on
                      THEN [on |-> TRUE, vol |-> res.total, cnt |-> cnt] ELSE @,
            !.denied = @ /\ ~(res.allowed /\ res.risk_score = 0)]
    ELSE IF txn_type = "WITHDRAWAL"
    THEN [tl EXCEPT
            !.wdSum = @ + (IF res.allowed THEN cents ELSE 0),
            !.wd1h = @ + Count(res.allowed),
            !.wd24h = @ + Count(res.allowed),
            !.denied = @ \/ res.reason \in RuleDenials]
    ELSE tl

\* no call has been made since the clock last moved
Idle == [op |-> "idle", mills |-> 0, txn_type |-> "", at |-> 0,
         res |-> NoOutcome, pre |-> << >>, preEx |-> << >>, preTally |-> NoTally,
         failed |-> FALSE, n |-> 0, raised |-> FALSE]

\* a call blocked by a rule, as opposed to refused for its input or a fault
BlockedByRule(out) == ~out.res.allowed /\ ~out.failed /\ out.n > 0

\* no calls have been made at the same time yet
NoRun == [started |-> FALSE, st0 |-> << >>, ex0 |-> << >>, overlapped |-> FALSE,
          first |-> 0, core |-> << >>]

Init ==
    /\ store = << >>
    /\ expiry = << >>
    /\ now = StartTick
    /\ wagerSum = 0
    /\ dep = [at |-> -1, mills |-> 0, risk_score |-> 0, allowed |-> FALSE,
              blocked |-> 0]
    /\ wdLog = << >>
    /\ used = [wagers |-> 0, blocked |-> 0, faults |-> 0]
    /\ last = Idle
    /\ procs = << >>
    /\ run = NoRun
    /\ db = << >>
    /\ tally = NoTally

CheckCall(op, mills, txn_type, failAt) ==
    \E out \in {check_structuring(store, expiry, now, mills, txn_type, failAt)} :
        /\ failAt > 0 => out.failed
        /\ store' = out.st
        /\ expiry' = out.ex
        /\ last' = Called(op, mills, txn_type, out)
        /\ used' = [used EXCEPT
                      !.blocked = @ + Count(op = "withdrawal" /\ BlockedByRule(out)),
                      !.faults = @ + Count(out.failed)]
        /\ used'.blocked <= MaxBlocked
        /\ used'.faults <= MaxFaults
        /\ tally' = IF mills > 0
                    THEN Tallied(tally, txn_type, ToCents(mills), out.res,
                                 Val(store, DepCnt) + 1)
                    ELSE tally
        /\ UNCHANGED <<now, wagerSum, procs, run, db>>

DepositCheck(mills, failAt, cap) ==
    /\ Val(store, DepCnt) < cap
    /\ CheckCall("deposit", mills, "DEPOSIT", failAt)
    /\ dep' = [at |-> now, mills |-> mills, risk_score |-> last'.res.risk_score,
               allowed |-> last'.res.allowed, blocked |-> 0]
    /\ UNCHANGED wdLog

WithdrawalCheck(mills, failAt) ==
    /\ CheckCall("withdrawal", mills, "WITHDRAWAL", failAt)
    /\ dep' = [dep EXCEPT !.blocked = @ + Count(~last'.res.allowed)]
    /\ LET old == IF now \in DOMAIN wdLog THEN wdLog[now]
                  ELSE [allowed |-> 0, blocked |-> 0]
       IN  wdLog' = Put(wdLog, now,
                        [allowed |-> old.allowed + Count(last'.res.allowed),
                         blocked |-> old.blocked + Count(~last'.res.allowed)])

InvalidCheck(mills, txn_type) ==
    /\ CheckCall("invalid", mills, txn_type, 0)
    /\ UNCHANGED <<dep, wdLog>>

RecordWager(mills, failAt) ==
    \E out \in {record_wager(store, expiry, now, mills, failAt)} :
        /\ failAt > 0 => out.failed
        /\ store' = out.st
        /\ expiry' = out.ex
        /\ last' = Called("wager", mills, "WAGER", out)
        /\ wagerSum' = wagerSum + (IF out.res.allowed THEN ToCents(mills) ELSE 0)
        /\ used' = [used EXCEPT !.wagers = @ + Count(out.res.allowed),
                                !.faults = @ + Count(out.failed)]
        /\ used'.wagers <= MaxWagers
        /\ used'.faults <= MaxFaults
        /\ UNCHANGED <<now, dep, wdLog, procs, run, db, tally>>

\* a wager arriving through POST /api/v1/record-wager
ApiRecordWager(mills, failAt) ==
    \E out \in {record_user_wager(store, expiry, now, mills, failAt)} :
        /\ failAt > 0 => out.failed
        /\ store' = out.st
        /\ expiry' = out.ex
        /\ last' = Called("api_wager", mills, "WAGER", out)
        /\ wagerSum' = wagerSum + (IF out.res.allowed THEN ToCents(Round2(mills)) ELSE 0)
        /\ used' = [used EXCEPT !.wagers = @ + Count(out.res.allowed),
                                !.faults = @ + Count(out.failed)]
        /\ used'.wagers <= MaxWagers
        /\ used'.faults <= MaxFaults
        /\ UNCHANGED <<now, dep, wdLog, procs, run, db, tally>>

\* two calls for the user arrive at the same moment
Fork(t1, m1, t2, m2) ==
    /\ ~run.started
    /\ procs' = (1 :> NewProc(t1, m1, "")) @@ (2 :> NewProc(t2, m2, ""))
    /\ run' = [run EXCEPT !.started = TRUE, !.st0 = store, !.ex0 = expiry]
    /\ last' = Idle
    /\ UNCHANGED <<store, expiry, now, wagerSum, dep, wdLog, used, db, tally>>

\* a call in progress issues its next store command
Step(i) ==
    /\ i \in DOMAIN procs
    /\ procs[i].pc # 0
    /\ \E r \in {StepEngine(procs[i], NewCtx(store, expiry, 0), run.st0, now)} :
          /\ store' = r.c.st
          /\ expiry' = r.c.ex
          /\ procs' = [procs EXCEPT ![i] = r.p]
          /\ tally' = IF r.p.pc = 0 /\ r.p.mills > 0
                      THEN Tallied(tally, r.p.txn_type, ToCents(r.p.mills), r.p.res,
                                   r.p.cnt)
                      ELSE tally
          /\ wagerSum' = wagerSum + (IF procs[i].txn_type = "WAGER" /\ procs[i].pc = 1
                                          /\ procs[i].mills > 0
                                     THEN ToCents(procs[i].mills) ELSE 0)
    /\ run' = [run EXCEPT
                 !.first = IF @ = 0 THEN i ELSE @,
                 !.overlapped = @ \/ \E j \in DOMAIN procs \ {i} :
                                          procs[j].pc \notin {0, 1}]
    /\ UNCHANGED <<now, last, dep, wdLog, used, db>>

\* a request arrives at POST /api/v1/check-transaction; one that fails the
\* schema is answered with HTTP 422 before the handler runs
ApiArrive(id, txn_type, mills) ==
    /\ Cardinality(DOMAIN procs) < MaxRequests
    /\ LET i == Cardinality(DOMAIN procs) + 1
           p == NewProc(txn_type, mills, id)
       IN  procs' = procs @@ (i :> IF TransactionRequestValid(mills) THEN p
                                   ELSE [Returned(p, HttpError("HTTP 422"))
                                            EXCEPT !.path = "refused"])
    /\ run' = [run EXCEPT !.started = TRUE]
    /\ last' = Idle
    /\ UNCHANGED <<store, expiry, now, wagerSum, dep, wdLog, used, db, tally>>

\* the idempotency query: a committed row answers the request
ApiQuery(i) ==
    /\ i \in DOMAIN procs /\ procs[i].pc = 1
    /\ procs' = [procs EXCEPT ![i] =
                    IF @.id \in DOMAIN db
                    THEN [Returned(@, StoredDecision(db[@.id])) EXCEPT !.path = "duplicate"]
                    ELSE [@ EXCEPT !.pc = 2]]
    /\ UNCHANGED <<store, expiry, now, last, wagerSum, dep, wdLog, used, run, db, tally>>

\* the call of check_structuring
ApiCore(i) ==
    /\ i \in DOMAIN procs /\ procs[i].pc = 2
    /\ \E out \in {check_structuring(store, expiry, now, Round2(procs[i].mills),
                                      procs[i].txn_type, 0)} :
          /\ store' = out.st
          /\ expiry' = out.ex
          /\ procs' = [procs EXCEPT ![i] = [@ EXCEPT !.pc = 3, !.res = out.res,
                                                      !.cnt = out.n]]
          /\ tally' = Tallied(tally, procs[i].txn_type, ToCents(Round2(procs[i].mills)),
                              out.res, Val(store, DepCnt) + 1)
    /\ run' = [run EXCEPT !.core = Put(@, procs[i].id, Val(@, procs[i].id) + 1)]
    /\ UNCHANGED <<now, last, wagerSum, dep, wdLog, used, db>>

\* db.add, db.commit: the row is stored, or the unique index refuses it and
\* the handler answers HTTP 500
ApiCommit(i) ==
    /\ i \in DOMAIN procs /\ procs[i].pc = 3
    /\ IF procs[i].id \in DOMAIN db
       THEN /\ procs' = [procs EXCEPT ![i] =
                            [Returned(@, HttpError("HTTP 500")) EXCEPT !.path = "error"]]
            /\ db' = db
       ELSE /\ procs' = [procs EXCEPT ![i] = [@ EXCEPT !.pc = 0, !.path = "processed"]]
            /\ db' = Put(db, procs[i].id, Row(procs[i].res))
    /\ UNCHANGED <<store, expiry, now, last, wagerSum, dep, wdLog, used, run, tally>>

\* the clock advances to a later instant; the keys whose TTL has run out are gone
Tick(t) ==
    /\ t > now
    /\ now' = t
    /\ LET alive == Alive(store, expiry, t)
       IN  /\ store' = [k \in alive |-> store[k]]
           /\ expiry' = [k \in alive \cap DOMAIN expiry |-> expiry[k]]
           /\ wagerSum' = IF Wagered \in DOMAIN store /\ Wagered \notin alive
                          THEN 0 ELSE wagerSum
           /\ tally' = [tally EXCEPT
                          !.depSum = IF DepVol \in alive THEN @ ELSE 0,
                          !.smurf = IF {DepVol, DepCnt} \subseteq alive THEN @
                                    ELSE NoSmurfing,
                          !.wdSum = IF WdVol \in alive THEN @ ELSE 0,
                          !.wd1h = IF WdCnt1h \in alive THEN @ ELSE 0,
                          !.wd24h = IF WdCnt24h \in alive THEN @ ELSE 0]
    /\ wdLog' = [x \in {y \in DOMAIN wdLog : t - y < Hour} |-> wdLog[x]]
    /\ last' = Idle
    /\ UNCHANGED <<used, dep, procs, run, db>>

\* the deposit side alone, with the full range of deposit amounts
NextDeposit ==
    \/ \E m \in DepositMillsRich : DepositCheck(m, 0, MaxDepositCount)
    \/ \E t \in InstantsDeposit : Tick(t)

SpecDeposit == Init /\ [][NextDeposit]_vars

\* the whole engine over a store that answers every command, with calls
\* arriving in three separate hours
Next ==
    \/ \E m \in DepositMills : DepositCheck(m, 0, MaxDeposits)
    \/ \E m \in WithdrawalMills : WithdrawalCheck(m, 0)
    \/ \E m \in WagerMillsCoarse : RecordWager(m, 0)
    \/ \E t \in Instants : Tick(t)

Spec == Init /\ [][Next]_vars

\* a $9,000 deposit comes first or not at all
DepositsAt(mills) == IF mills = 9000000 THEN 1 ELSE MaxDeposits + Val(store, DepVol) \div 900000

\* the whole engine around the end of the first hour, with small wagers
NextLayering ==
    \/ \E m \in DepositMillsLayering : DepositCheck(m, 0, DepositsAt(m))
    \/ \E m \in WithdrawalMillsSmall : WithdrawalCheck(m, 0)
    \/ \E m \in WagerMills : RecordWager(m, 0)
    \/ \E t \in InstantsLayering : Tick(t)

SpecLayering == Init /\ [][NextLayering]_vars

\* the engine over a store whose commands may raise redis.RedisError
NextFault ==
    \/ \E m \in DepositMillsFault, f \in 0 .. MaxFailAt :
            DepositCheck(m, f, MaxDeposits)
    \/ \E m \in WithdrawalMillsFault, f \in 0 .. MaxFailAt : WithdrawalCheck(m, f)

SpecFault == Init /\ [][NextFault]_vars

\* the engine with the requests it refuses for their input
NextInvalid ==
    \/ \E m \in DepositMills : DepositCheck(m, 0, MaxDeposits)
    \/ \E m \in WithdrawalMillsSmall : WithdrawalCheck(m, 0)
    \/ \E r \in InvalidRequests : InvalidCheck(r[1], r[2])
    \/ \E m \in WagerMillsCoarse \cup InvalidWagerMills : RecordWager(m, 0)
    \/ \E t \in InstantsLayering : Tick(t)

SpecInvalid == Init /\ [][NextInvalid]_vars

\* two calls at the same moment and no third, after at most one deposit and
\* some wagers
NextConcurrent ==
    \/ ~run.started /\ \E m \in DepositMillsConcurrent : DepositCheck(m, 0, MaxDeposits)
    \/ ~run.started /\ \E m \in WagerMillsCoarse : RecordWager(m, 0)
    \/ \E t1, t2 \in {"DEPOSIT", "WITHDRAWAL", "WAGER"} :
          \E m1 \in ConcurrentMills(t1), m2 \in ConcurrentMills(t2) :
              Fork(t1, m1, t2, m2)
    \/ \E i \in {1, 2} : Step(i)

SpecConcurrent == Init /\ [][NextConcurrent]_vars

\* two withdrawals at the same moment, after withdrawals of $1,000 made one
\* after another in up to three separate hours
NextConcurrentWithdrawals ==
    \/ ~run.started /\ \E m \in WithdrawalMillsSmall : WithdrawalCheck(m, 0)
    \/ ~run.started /\ \E t \in Instants : Tick(t)
    \/ \E m1, m2 \in WithdrawalMillsConcurrent : Fork("WITHDRAWAL", m1, "WITHDRAWAL", m2)
    \/ \E i \in {1, 2} : Step(i)

SpecConcurrentWithdrawals == Init /\ [][NextConcurrentWithdrawals]_vars

\* requests with transaction ids, handled at the same time or one after another
NextApi ==
    \/ \E id \in TransactionIds, r \in ApiRequests : ApiArrive(id, r[1], r[2])
    \/ \E i \in 1 .. MaxRequests : ApiQuery(i)
    \/ \E i \in 1 .. MaxRequests : ApiCore(i)
    \/ \E i \in 1 .. MaxRequests : ApiCommit(i)

SpecApi == Init /\ [][NextApi]_vars

\* the wager recorder, called directly and through its endpoint
NextWager ==
    \/ \E m \in WagerMillsCeiling \cup InvalidWagerMills : RecordWager(m, 0)
    \/ \E m \in WagerMillsCeiling \cup InvalidWagerMills : ApiRecordWager(m, 0)
    \/ \E m \in DepositMills : DepositCheck(m, 0, MaxDeposits)
    \/ \E t \in InstantsDeposit : Tick(t)

SpecWager == Init /\ [][NextWager]_vars

----------------------------------------------------------------------------
(* Properties of deposit checks, under SpecDeposit.  In the state after a  *)
(* call, last holds the call and last.pre the store before it; a counter's *)
(* value is the integer Redis counts it as (a missing key counts as 0).    *)

AfterDeposit == last.op = "deposit"
DepositCents == ToCents(last.mills)
\* the 24h deposit volume and count the call's increments produce
ResultingDepVol == Val(last.pre, DepVol) + DepositCents
ResultingDepCnt == Val(last.pre, DepCnt) + 1
DepositCountersRestored ==
    /\ Val(store, DepVol) = Val(last.pre, DepVol)
    /\ Val(store, DepCnt) = Val(last.pre, DepCnt)
DepositCountersIncremented ==
    /\ Val(store, DepVol) = ResultingDepVol
    /\ Val(store, DepCnt) = ResultingDepCnt
Scored(allowed, score) ==
    last.res.allowed = allowed /\ last.res.risk_score = score

\* C1: a deposit check whose increment takes the 24h deposit volume above
\* 1,000,000 cents is denied with score 100, and afterwards deposit_volume and
\* deposit_count have the values they had before the call.
C1_HardLimitRollsBack ==
    (AfterDeposit /\ ResultingDepVol > 1000000) =>
        (Scored(FALSE, 100) /\ DepositCountersRestored)

\* a deposit on top of earlier deposits was denied at the hard limit
C1_Witness ==
    /\ AfterDeposit /\ ResultingDepVol > 1000000
    /\ Val(last.pre, DepVol) > 0 /\ Val(last.pre, DepCnt) > 0
    /\ last.res.reason = "Daily deposit limit exceeded"

\* C2 as claimed: the 16th or a later deposit whose resulting volume is above
\* $5,000 is denied with score 95 and the counters stay incremented.
C2_AsClaimed ==
    (AfterDeposit /\ ResultingDepCnt >= 16 /\ ResultingDepVol > 500000) =>
        (Scored(FALSE, 95) /\ DepositCountersIncremented)

\* C2, amended: the 16th or a later deposit whose resulting volume is above
\* $5,000 and at most $10,000 is denied with score 95, and deposit_volume and
\* deposit_count stay incremented by it.
C2_SmurfingKeepsCounters ==
    (AfterDeposit /\ ResultingDepCnt >= 16
        /\ ResultingDepVol > 500000 /\ ResultingDepVol <= 1000000) =>
        (Scored(FALSE, 95) /\ DepositCountersIncremented)

\* a 16th deposit was denied for structuring
C2_Witness ==
    /\ AfterDeposit /\ ResultingDepCnt = 16
    /\ ResultingDepVol > 500000 /\ ResultingDepVol <= 1000000
    /\ last.res.reason = "Structuring detected"
    /\ Val(store, DepCnt) = 16

\* C3 as claimed: a deposit whose resulting volume lies in [$9,000, $10,000]
\* is allowed with score 80, whatever the resulting count.
C3_AsClaimed ==
    (AfterDeposit /\ ResultingDepVol >= 900000 /\ ResultingDepVol <= 1000000) =>
        Scored(TRUE, 80)

\* C3, amended: a deposit whose resulting volume lies in [$9,000, $10,000] and
\* whose resulting count is at most 15 is allowed with score 80.
C3_NearLimitWarning ==
    (AfterDeposit /\ ResultingDepVol >= 900000 /\ ResultingDepVol <= 1000000
        /\ ResultingDepCnt <= 15) =>
        Scored(TRUE, 80)

\* a deposit reached exactly $9,000 and was allowed with the warning
C3_Witness ==
    /\ AfterDeposit /\ ResultingDepVol = 900000 /\ ResultingDepCnt <= 15
    /\ Scored(TRUE, 80)

\* C4 as claimed: a valid deposit whose resulting volume is at most $9,000,
\* the boundary included, and whose resulting count is at most 15 is allowed
\* with score 0.
C4_AsClaimed ==
    (AfterDeposit /\ last.mills > 0
        /\ ResultingDepVol <= 900000 /\ ResultingDepCnt <= 15) =>
        Scored(TRUE, 0)

\* C4, amended: a valid deposit whose resulting volume is below $9,000 and
\* whose resulting count is at most 15 is allowed with score 0.
C4_CleanApprove ==
    (AfterDeposit /\ last.mills > 0
        /\ ResultingDepVol < 900000 /\ ResultingDepCnt <= 15) =>
        Scored(TRUE, 0)

\* a 15th deposit above the smurfing volume was approved with score 0
C4_Witness ==
    /\ AfterDeposit /\ last.mills > 0
    /\ ResultingDepVol > 500000 /\ ResultingDepVol < 900000
    /\ ResultingDepCnt = 15
    /\ Scored(TRUE, 0)

----------------------------------------------------------------------------
(* Properties of calls over a failing store, under SpecFault               *)

AfterCheck == last.op \in {"deposit", "withdrawal", "invalid"}

\* C5: when a store command raises at any step of a transaction check, the
\* check does not raise and returns allowed = false, score 100, total 0; no
\* call during which a command raised returns allowed = true.
C5_FailClosed ==
    (AfterCheck /\ last.failed) =>
        (~last.raised /\ Scored(FALSE, 100) /\ last.res.total = 0
            /\ last.res.reason = "System error: Unable to verify transaction history")

\* the DEL that ends a withdrawal's rollback raised: the counters are
\* decremented, last_deposit_time is still there, and the call answers the
\* system error
C5_Witness ==
    /\ last.op = "withdrawal" /\ last.failed /\ last.n >= 10
    /\ Scored(FALSE, 100) /\ last.res.total = 0
    /\ Val(store, WdCnt24h) = Val(last.pre, WdCnt24h)
    /\ Val(store, Wagered) = Val(last.pre, Wagered) - 1
    /\ LastDep \in DOMAIN store

----------------------------------------------------------------------------
(* Properties of refused requests, under SpecInvalid                       *)

\* C6: a check with a non-positive amount, or with a type other than DEPOSIT
\* and WITHDRAWAL, returns allowed = false, score 100, total 0 and issues no
\* store command: every key of the user is as it was.
C6_InvalidInputTouchesNothing ==
    (AfterCheck /\ (last.mills <= 0 \/ last.txn_type \notin {"DEPOSIT", "WITHDRAWAL"})) =>
        (Scored(FALSE, 100) /\ last.res.total = 0 /\ last.n = 0 /\ store = last.pre)

\* a withdrawal of a negative amount was refused while the user had counters
C6_Witness ==
    /\ AfterCheck /\ last.mills < 0 /\ last.txn_type = "WITHDRAWAL"
    /\ last.res.reason = "Invalid Amount"
    /\ Val(store, WdCnt1h) > 0 /\ Val(store, DepCnt) > 0
    /\ store = last.pre

----------------------------------------------------------------------------
(* Properties of withdrawal checks, under Spec and SpecLayering            *)

AfterWithdrawal == last.op = "withdrawal"
WithdrawalCents == ToCents(last.mills)
ResultingWdVol == Val(last.pre, WdVol) + WithdrawalCents
WithdrawalCountersRestored ==
    /\ Val(store, WdVol) = Val(last.pre, WdVol)
    /\ Val(store, WdCnt1h) = Val(last.pre, WdCnt1h)
    /\ Val(store, WdCnt24h) = Val(last.pre, WdCnt24h)

\* the blocking conditions of the five rules, read off the store before the call
Holds1 == ResultingWdVol > 5000000
Holds2 == Val(last.pre, WdCnt1h) + 1 > 5
Holds3 == Val(last.pre, WdCnt24h) + 1 > 12
Holds4 ==
    /\ LastDep \in DOMAIN last.pre
    /\ (last.at \div TicksPerSecond) - last.pre[LastDep] < 3600
Holds5 ==
    /\ Val(last.pre, DepVol) > 0
    /\ 100 * Val(last.pre, Wagered) < 5 * Val(last.pre, DepVol)

\* the score, the reason and the number of store commands of the earliest
\* rule that holds
FirstRule ==
    IF Holds1 THEN <<100, "Daily withdrawal limit exceeded", 11>>
    ELSE IF Holds2 THEN <<95, "Velocity exceeded", 11>>
    ELSE IF Holds3 THEN <<90, "Suspicious activity", 11>>
    ELSE IF Holds4 THEN <<90, "Quick withdrawal detected", 12>>
    ELSE IF Holds5 THEN <<85, "Insufficient betting activity", 14>>
    ELSE <<0, "", 9>>

\* C7: a withdrawal check is decided by the first rule that holds, in the
\* order hard limit (100), hourly velocity (95), daily velocity (90), quick
\* withdrawal (90), low wagering ratio (85); the rules after it issue no store
\* command, and the denial restores withdrawal_volume, withdrawal_count_1h and
\* withdrawal_count_24h.  When no rule holds the withdrawal is allowed.
C7_FirstMatchingRule ==
    AfterWithdrawal =>
        IF Holds1 \/ Holds2 \/ Holds3 \/ Holds4 \/ Holds5
        THEN /\ Scored(FALSE, FirstRule[1])
             /\ last.res.reason = FirstRule[2]
             /\ last.n = FirstRule[3]
             /\ WithdrawalCountersRestored
        ELSE last.res.allowed /\ last.n = FirstRule[3]

\* hard limit and hourly velocity held together, with a deposit seconds old
\* and nothing wagered: the hard limit decided
C7_Witness ==
    /\ AfterWithdrawal /\ Holds1 /\ Holds2 /\ Holds4 /\ Holds5
    /\ Scored(FALSE, 100) /\ last.n = 11
    /\ WithdrawalCountersRestored

RECURSIVE SumOver(_, _, _)
SumOver(f, S, field) ==
    IF S = {} THEN 0
    ELSE LET x == CHOOSE y \in S : TRUE
         IN  f[x][field] + SumOver(f, S \ {x}, field)

\* the withdrawal checks made within the hour up to now, this one included
ChecksInHour == SumOver(wdLog, DOMAIN wdLog, "allowed")
                    + SumOver(wdLog, DOMAIN wdLog, "blocked")
\* the withdrawals allowed within the hour before this check
AllowedBefore == SumOver(wdLog, DOMAIN wdLog, "allowed") - Count(last.res.allowed)

\* C8 as claimed: of any 6 withdrawal checks inside the same rolling hour,
\* each of at most $50,000, the 6th is denied for hourly velocity with score 95.
C8_AsClaimed ==
    (AfterWithdrawal /\ ChecksInHour = 6 /\ WithdrawalCents <= 5000000) =>
        (Scored(FALSE, 95) /\ last.res.reason = "Velocity exceeded")

\* C8, amended: a withdrawal check that follows 5 withdrawals allowed inside
\* the same rolling hour, and whose resulting 24h volume is at most $50,000,
\* is denied for hourly velocity with score 95.
C8_SixthInHourDenied ==
    (AfterWithdrawal /\ AllowedBefore >= 5 /\ ResultingWdVol <= 5000000) =>
        (Scored(FALSE, 95) /\ last.res.reason = "Velocity exceeded")

\* five withdrawals were allowed in the hour and the sixth check was denied
C8_Witness ==
    /\ AfterWithdrawal /\ AllowedBefore = 5 /\ ChecksInHour = 6
    /\ ResultingWdVol <= 5000000
    /\ Scored(FALSE, 95)

\* the most recent deposit check was one of $1,000
AfterThousandDeposit == dep.at >= 0 /\ dep.mills = 1000000
PassesEarlyRules == ~Holds1 /\ ~Holds2 /\ ~Holds3
QuickDenial ==
    /\ Scored(FALSE, 90) /\ last.res.reason = "Quick withdrawal detected"
    /\ WithdrawalCountersRestored

\* C9 as claimed: after a $1,000 deposit check, a withdrawal check made less
\* than 3600 seconds later that passes the hard-limit and velocity rules is
\* denied for quick withdrawal with score 90, and the three withdrawal
\* counters have their values of before the call.
C9_AsClaimed ==
    (AfterWithdrawal /\ AfterThousandDeposit /\ PassesEarlyRules
        /\ last.at - dep.at < 3600 * TicksPerSecond) =>
        QuickDenial

\* C9, amended: after a $1,000 deposit check that was approved with score 0,
\* with no withdrawal denied since, a withdrawal check whose whole-second
\* timestamp is less than 3600 above the deposit's and that passes the
\* hard-limit and velocity rules is denied for quick withdrawal with score 90,
\* and the three withdrawal counters have their values of before the call.
C9_QuickWithdrawalDenied ==
    (AfterWithdrawal /\ AfterThousandDeposit /\ PassesEarlyRules
        /\ dep.allowed /\ dep.risk_score = 0
        /\ dep.blocked - Count(~last.res.allowed) = 0
        /\ (last.at \div TicksPerSecond) - (dep.at \div TicksPerSecond) < 3600) =>
        QuickDenial

\* a withdrawal made after the deposit, and after an earlier withdrawal, was
\* denied for quick withdrawal and rolled back
C9_Witness ==
    /\ AfterWithdrawal /\ AfterThousandDeposit /\ PassesEarlyRules
    /\ dep.allowed /\ dep.risk_score = 0 /\ dep.blocked = 1
    /\ last.at > dep.at
    /\ Val(last.pre, WdCnt24h) > 0
    /\ QuickDenial

\* C10 as claimed: with 24h deposits of $1,000, a second or more since the
\* hour after the deposit has passed, and under the velocity and hard
\* limits, a withdrawal attempted while the user has wagered $40 is denied for
\* low wagering ratio with score 85, and one attempted once the user has
\* wagered $50 is allowed.
C10_AsClaimed ==
    (AfterWithdrawal /\ PassesEarlyRules
        /\ Val(last.pre, DepVol) = 100000
        /\ dep.at >= 0 /\ last.at - dep.at >= 3600 * TicksPerSecond) =>
        /\ wagerSum = 4000 =>
              (Scored(FALSE, 85) /\ last.res.reason = "Insufficient betting activity")
        /\ wagerSum = 5000 => last.res.allowed

----------------------------------------------------------------------------
(* Properties of the rollbacks and of record_wager                         *)

\* a deposit check that was denied and rolled back
DepositRolledBack ==
    AfterDeposit /\ ~last.failed /\ last.res.reason = "Daily deposit limit exceeded"
\* a withdrawal check that was denied by a rule and rolled back
WithdrawalRolledBack ==
    AfterWithdrawal /\ ~last.failed /\ last.n > 0 /\ ~last.res.allowed

\* a key holds what it held before the call: the same integer, and it is
\* there or missing as it was
SameAsBefore(k) ==
    /\ Val(store, k) = Val(last.pre, k)
    /\ (k \in DOMAIN store) = (k \in DOMAIN last.pre)

\* C11 as claimed: after a denied deposit that rolls back and after a denied
\* withdrawal that rolls back, every key the call wrote to holds the value it
\* held immediately before the call.  The counters are compared as the
\* integers they count as; last_deposit_time as present or absent.
C11_AsClaimed ==
    /\ DepositRolledBack =>
          /\ Val(store, DepVol) = Val(last.pre, DepVol)
          /\ Val(store, DepCnt) = Val(last.pre, DepCnt)
    /\ WithdrawalRolledBack =>
          /\ WithdrawalCountersRestored
          /\ Val(store, Wagered) = Val(last.pre, Wagered)
          /\ SameAsBefore(LastDep)

AfterWager == last.op = "wager"

\* C12: record_wager with a negative or zero amount returns success = false
\* and leaves wagered_24h as it was, its value and its expiry; it issues no
\* store command at all.
C12_NonPositiveWagerRefused ==
    (AfterWager /\ last.mills <= 0) =>
        /\ ~last.res.allowed
        /\ last.res.reason = "Invalid wager amount"
        /\ last.n = 0
        /\ store = last.pre
        /\ expiry = last.preEx

\* a negative wager was refused while wagered_24h held earlier wagers and
\* had its expiry
C12_Witness ==
    /\ AfterWager /\ last.mills < 0 /\ ~last.res.allowed
    /\ Wagered \in DOMAIN store /\ store[Wagered] > 0
    /\ Wagered \in DOMAIN expiry
    /\ store = last.pre /\ expiry = last.preEx

\* C13 as claimed: a wager above the ceiling of 100,000 currency units is
\* rejected and wagered_24h is not mutated, by record_wager itself as well as
\* by the endpoint.
C13_AsClaimed ==
    ((AfterWager \/ last.op = "api_wager") /\ last.mills > 100000000) =>
        /\ ~last.res.allowed
        /\ store = last.pre
        /\ expiry = last.preEx

\* C14 as claimed: a successful record_wager adds exactly its amount in cents
\* to wagered_24h and returns the new total, and in every reachable state
\* wagered_24h equals the sum of the wagers recorded since the key last
\* expired, whatever deposit and withdrawal checks are interleaved.
C14_AsClaimed ==
    /\ (AfterWager /\ last.res.allowed) =>
          /\ Val(store, Wagered) = Val(last.pre, Wagered) + ToCents(last.mills)
          /\ last.res.total = Val(store, Wagered)
    /\ Val(store, Wagered) = wagerSum

----------------------------------------------------------------------------
(* Properties of calls made at the same moment, under SpecConcurrent       *)

AllReturned == run.started /\ \A i \in DOMAIN procs : procs[i].pc = 0
BothAre(txn_type) == \A i \in DOMAIN procs : procs[i].txn_type = txn_type
BothAllowed == \A i \in DOMAIN procs : procs[i].res.allowed
CentsOf(i) == ToCents(procs[i].mills)

\* C15: two concurrent deposit checks of amounts a and b that both end
\* allowed leave deposit_volume at its initial value plus a plus b and
\* deposit_count at its initial value plus 2, in every interleaving of their
\* store commands; two concurrent record_wager calls add both amounts to
\* wagered_24h.
C15_NoLostUpdate ==
    (AllReturned /\ BothAllowed) =>
        /\ BothAre("DEPOSIT") =>
              /\ Val(store, DepVol) = Val(run.st0, DepVol) + CentsOf(1) + CentsOf(2)
              /\ Val(store, DepCnt) = Val(run.st0, DepCnt) + 2
        /\ BothAre("WAGER") =>
              Val(store, Wagered) = Val(run.st0, Wagered) + CentsOf(1) + CentsOf(2)

\* two deposits whose commands overlapped were both allowed, on top of an
\* earlier deposit
C15_Witness ==
    /\ AllReturned /\ BothAllowed /\ BothAre("DEPOSIT") /\ run.overlapped
    /\ Val(run.st0, DepVol) > 0
    /\ Val(store, DepVol) = Val(run.st0, DepVol) + CentsOf(1) + CentsOf(2)
    /\ Val(store, DepCnt) = 3

\* what the two calls return and leave when the one made in one piece
\* follows the other made in one piece
Serial(i, j) ==
    LET a == CallEngine(procs[i], run.st0, run.ex0, now)
        b == CallEngine(procs[j], a.st, a.ex, now)
    IN  [res |-> (i :> a.res) @@ (j :> b.res), st |-> b.st, ex |-> b.ex]

\* what they did return and leave
Actual == [res |-> [i \in DOMAIN procs |-> procs[i].res], st |-> store, ex |-> expiry]

Other(i) == 3 - i

\* C18: the engine is not serializable across one user's requests.  The
\* state C18_Witness is reachable: two concurrent checks whose pair of
\* outcomes neither sequential order of the two produces, every store command
\* having been applied atomically.  What does hold is the converse side:
\* whenever the commands of the two calls did not overlap, their outcomes and
\* the final store are those of the sequential order in which they ran.
C18_SerialUnlessOverlapped ==
    (AllReturned /\ ~run.overlapped) => Actual = Serial(run.first, Other(run.first))

\* two withdrawals made in the hour of a deposit were both denied for quick
\* withdrawal: in either sequential order the first deletes last_deposit_time
\* and the second is denied for its wagering ratio
C18_Witness ==
    /\ AllReturned /\ run.overlapped
    /\ BothAre("WITHDRAWAL")
    /\ \A i \in DOMAIN procs : procs[i].res.reason = "Quick withdrawal detected"
    /\ Actual.res # Serial(1, 2).res
    /\ Actual.res # Serial(2, 1).res

\* C21: in every interleaving of the store commands of concurrent deposit
\* checks of one user, with no key expiring and no command failing, the
\* amounts of the deposits that returned allowed = true add up to at most
\* 1,000,000 cents.
C21_AllowedDepositsWithinLimit == tally.depSum <= DAILY_DEPOSIT_LIMIT_CENTS

\* two deposits of $3,000 and $6,000 whose commands overlapped were both
\* allowed after one of $1,000: the allowed amounts are exactly the limit
C21_Witness ==
    /\ AllReturned /\ BothAre("DEPOSIT") /\ BothAllowed /\ run.overlapped
    /\ CentsOf(1) # CentsOf(2)
    /\ tally.depSum = DAILY_DEPOSIT_LIMIT_CENTS
    /\ Val(store, DepVol) = DAILY_DEPOSIT_LIMIT_CENTS

\* C22: in every interleaving of the store commands of concurrent
\* withdrawal checks of one user, with no key expiring and no command failing,
\* at most 5 withdrawals are allowed while one hourly counter lives, at most
\* 12 while one daily counter lives, and the amounts of the allowed
\* withdrawals add up to at most 5,000,000 cents.
C22_AllowedWithdrawalsWithinLimits ==
    /\ tally.wd1h <= WITHDRAWAL_VELOCITY_LIMIT_1H
    /\ tally.wd24h <= WITHDRAWAL_VELOCITY_LIMIT_24H
    /\ tally.wdSum <= DAILY_WITHDRAWAL_LIMIT_CENTS

\* after four withdrawals in the hour, of two withdrawals whose commands
\* overlapped one was allowed as the fifth and the other denied for velocity
C22_Witness ==
    /\ AllReturned /\ BothAre("WITHDRAWAL") /\ run.overlapped
    /\ Val(run.st0, WdCnt1h) = WITHDRAWAL_VELOCITY_LIMIT_1H - 1
    /\ \E i \in DOMAIN procs :
          /\ procs[i].res.allowed
          /\ procs[Other(i)].res.reason = "Velocity exceeded"
    /\ tally.wd1h = WITHDRAWAL_VELOCITY_LIMIT_1H

----------------------------------------------------------------------------
(* Properties of the endpoint's idempotency check, under SpecApi           *)

\* C16 as claimed: the endpoint calls check_structuring at most once for a
\* transaction_id, in every arrival order, concurrent requests included; and
\* a request whose id already has a row is answered with the stored allow or
\* deny decision without any store command.
C16_AsClaimed ==
    /\ \A id \in DOMAIN run.core : run.core[id] <= 1
    /\ \A i \in DOMAIN procs :
          procs[i].path = "duplicate" =>
              /\ procs[i].res.allowed = ~db[procs[i].id].is_flagged
              /\ procs[i].cnt = 0

----------------------------------------------------------------------------
(* Properties of a rollback cut short, under SpecFault                     *)

RuleFired == Holds1 \/ Holds2 \/ Holds3 \/ Holds4 \/ Holds5
\* which command of _rollback_withdrawal raised: 1 to 5, or less when the
\* call failed before its rollback
FailedInWithdrawalRollback == last.n - (FirstRule[3] - 5)
\* which command of _rollback_deposit raised: 1 or 2
FailedInDepositRollback == last.n - 4

\* C17: when a store command raises during the rollback that follows a
\* blocking rule, the call does not raise and returns allowed = false; the
\* counters decremented before the failing command stay decremented and the
\* others stay incremented.
C17_PartialRollback ==
    /\ (AfterWithdrawal /\ last.failed /\ RuleFired /\ FailedInWithdrawalRollback >= 1) =>
          /\ ~last.raised /\ ~last.res.allowed
          /\ Val(store, WdVol) =
                ResultingWdVol - (IF FailedInWithdrawalRollback > 1 THEN WithdrawalCents ELSE 0)
          /\ Val(store, WdCnt1h) =
                Val(last.pre, WdCnt1h) + 1 - Count(FailedInWithdrawalRollback > 2)
          /\ Val(store, WdCnt24h) =
                Val(last.pre, WdCnt24h) + 1 - Count(FailedInWithdrawalRollback > 3)
          /\ Val(store, Wagered) =
                Val(last.pre, Wagered) - Count(FailedInWithdrawalRollback > 4)
          /\ SameAsBefore(LastDep)
    /\ (AfterDeposit /\ last.failed /\ ResultingDepVol > 1000000
            /\ FailedInDepositRollback >= 1) =>
          /\ ~last.raised /\ ~last.res.allowed
          /\ Val(store, DepVol) =
                ResultingDepVol - (IF FailedInDepositRollback > 1 THEN DepositCents ELSE 0)
          /\ Val(store, DepCnt) = ResultingDepCnt

\* the third command of a withdrawal's rollback raised: the volume and the
\* hourly count are back, the daily count is still incremented
C17_Witness ==
    /\ AfterWithdrawal /\ last.failed /\ RuleFired /\ FailedInWithdrawalRollback = 3
    /\ ~last.res.allowed
    /\ Val(store, WdVol) = Val(last.pre, WdVol)
    /\ Val(store, WdCnt1h) = Val(last.pre, WdCnt1h)
    /\ Val(store, WdCnt24h) = Val(last.pre, WdCnt24h) + 1

----------------------------------------------------------------------------
(* Further properties of deposit checks, under SpecDeposit, and of          *)
(* withdrawal checks, under Spec                                            *)

CleanApprove == last.res.allowed /\ last.res.risk_score = 0

\* last_deposit_time holds what it held before the call, with the same expiry
LastDepUntouched ==
    /\ (LastDep \in DOMAIN store) = (LastDep \in DOMAIN last.pre)
    /\ LastDep \in DOMAIN store => store[LastDep] = last.pre[LastDep]
    /\ (LastDep \in DOMAIN expiry) = (LastDep \in DOMAIN last.preEx)
    /\ LastDep \in DOMAIN expiry => expiry[LastDep] = last.preEx[LastDep]

\* C19: a deposit check writes last_deposit_time only when it approves with
\* score 0, and then writes the whole second of the call with an expiry 24h
\* later; a deposit denied for the hard limit or for smurfing, or allowed with
\* the near-limit warning, leaves last_deposit_time as it was.
C19_StampOnlyOnCleanApprove ==
    AfterDeposit =>
        IF CleanApprove
        THEN /\ LastDep \in DOMAIN store
             /\ store[LastDep] = last.at \div TicksPerSecond
             /\ expiry[LastDep] = last.at + 86400 * TicksPerSecond
        ELSE /\ last.res.risk_score \in {100, 95, 80}
             /\ LastDepUntouched

\* a deposit allowed with the warning, a day's clean deposit before it still
\* stamped in last_deposit_time
C19_Witness ==
    /\ AfterDeposit /\ last.res.allowed /\ last.res.risk_score = 80
    /\ LastDep \in DOMAIN last.pre
    /\ last.pre[LastDep] < last.at \div TicksPerSecond
    /\ LastDepUntouched

NoRuleHolds == ~Holds1 /\ ~Holds2 /\ ~Holds3 /\ ~Holds4 /\ ~Holds5
ResultingWdCnt24h == Val(last.pre, WdCnt24h) + 1
WithdrawalCountersIncremented ==
    /\ Val(store, WdVol) = ResultingWdVol
    /\ Val(store, WdCnt1h) = Val(last.pre, WdCnt1h) + 1
    /\ Val(store, WdCnt24h) = ResultingWdCnt24h

\* C20: a withdrawal that matches no blocking rule is allowed with score 70
\* exactly when its resulting withdrawal_count_24h is 10, 11 or 12, and with
\* score 0 and reason Safe otherwise; either way the withdrawal counters stay
\* incremented and the running total is the new volume.
C20_HighFrequencyWarning ==
    (AfterWithdrawal /\ NoRuleHolds) =>
        /\ last.res.allowed
        /\ IF ResultingWdCnt24h \in {10, 11, 12}
           THEN /\ last.res.risk_score = 70
                /\ last.res.reason = "Warning: High withdrawal frequency"
           ELSE /\ last.res.risk_score = 0
                /\ last.res.reason = "Safe"
        /\ WithdrawalCountersIncremented
        /\ last.res.total = ResultingWdVol

\* the 10th withdrawal of the day was allowed with the warning
C20_Witness ==
    /\ AfterWithdrawal /\ NoRuleHolds
    /\ ResultingWdCnt24h = 10
    /\ last.res.allowed /\ last.res.risk_score = 70
    /\ WithdrawalCountersIncremented

----------------------------------------------------------------------------
(* What a structuring denial leaves behind, under SpecDeposit              *)

\* a structuring denial has been returned in the life of the deposit counters
SmurfingDenied == tally.smurf.on
DeniedAfterSmurfing == AfterDeposit /\ last.preTally.smurf.on

\* C23: once a deposit has been denied for structuring, every later deposit
\* check is denied, for structuring or for the daily limit, until the deposit
\* counters expire; and in that time dep_vol_24h and dep_count_24h never hold
\* less than they held when that denial returned.
C23_SmurfingDenialSticky ==
    /\ DeniedAfterSmurfing =>
          /\ ~last.res.allowed
          /\ last.res.reason \in {"Structuring detected", "Daily deposit limit exceeded"}
    /\ SmurfingDenied =>
          /\ Val(store, DepVol) >= tally.smurf.vol
          /\ Val(store, DepCnt) >= tally.smurf.cnt

\* after a structuring denial at the 16th deposit, a deposit of $11,000 was
\* denied for the daily limit and rolled back to the values of that denial
C23_Witness ==
    /\ DeniedAfterSmurfing
    /\ last.res.reason = "Daily deposit limit exceeded"
    /\ tally.smurf.cnt = DEPOSIT_VELOCITY_LIMIT_24H + 1
    /\ tally.smurf.vol > SMURFING_VOLUME_CENTS
    /\ Val(store, DepVol) = tally.smurf.vol
    /\ Val(store, DepCnt) = tally.smurf.cnt

----------------------------------------------------------------------------
(* The counters in every state, under Spec, and what a denied withdrawal   *)
(* leaves behind, under SpecLayering                                       *)

\* C24 as claimed: every counter (dep_vol_24h, dep_count_24h, wd_vol_24h,
\* wd_cnt_1h, wd_cnt_24h, wagered_24h) is non-negative in every reachable
\* state.
C24_AsClaimed == \A k \in Counters : Val(store, k) >= 0

\* a withdrawal check has been denied by one of the five blocking rules
DeniedByRule == AfterWithdrawal /\ last.res.reason \in RuleDenials
\* a withdrawal check made after such a denial with no deposit approved with
\* score 0 in between
AfterDenialUnstamped == AfterWithdrawal /\ last.preTally.denied

\* C25: when a withdrawal check denied by one of the rules 1-5 has returned,
\* last_deposit_time is absent; and a withdrawal check made after such a
\* denial, with no deposit approved with score 0 in between, is never denied
\* for quick withdrawal, however short the time since the last deposit.
C25_DenialClearsDepositTime ==
    /\ DeniedByRule => LastDep \notin DOMAIN store
    /\ AfterDenialUnstamped =>
          /\ LastDep \notin DOMAIN last.pre
          /\ last.res.reason # "Quick withdrawal detected"

\* in the second of a deposit approved with score 0, a withdrawal was denied
\* and the next one, with the key gone, was allowed
C25_Witness ==
    /\ AfterDenialUnstamped
    /\ dep.allowed /\ dep.risk_score = 0 /\ dep.at = last.at
    /\ Val(last.pre, DepVol) > 0
    /\ last.res.allowed

\* C26 as claimed: every counter key that exists carries an expiry no longer
\* than its window (24 hours, one hour for wd_cnt_1h), and no sequence of
\* operations, the decrements of a rollback on an absent key included, leaves
\* a counter key without an expiry.
C26_AsClaimed ==
    \A k \in Counters \cap DOMAIN store :
        /\ k \in DOMAIN expiry
        /\ expiry[k] - now <= Window(k) * TicksPerSecond

====
